---- MODULE Spec2Model ----
(***************************************************************************)
(* YoloPlateSentry: the detection and recognition pipeline.                *)
(*                                                                         *)
(*   crates/yolo-detector  postprocess_output, non_max_suppression,        *)
(*                         calculate_iou                                   *)
(*   crates/plate-ocr      postprocess_text                                *)
(*   crates/notification   send_alert                                      *)
(*   src/main.rs           App::process_frame                              *)
(*                                                                         *)
(* Numbers.  The f32 values of the detector are modelled by exact          *)
(* integers and fractions:                                                 *)
(*   - a raw row holds integers <<center_x, center_y, width, height,       *)
(*     confidence>>, the confidence in tenths (9 is 0.9);                  *)
(*   - a box coordinate is stored doubled (x_min = 2*cx - w stands for     *)
(*     cx - w/2.0), so that the halving of the decode step is exact;       *)
(*   - an IoU is the fraction [num, den] the division is applied to, with  *)
(*     the IEEE-754 results of a division by zero: 0/0 is NaN, every       *)
(*     comparison with NaN is false, and x/0 is an infinity for x # 0.     *)
(* On the magnitudes used here every f32 operation but the division is     *)
(* exact, and the division is only ever compared with 0, 0.5 and 1, which  *)
(* the rounding of a quotient of small integers cannot cross.              *)
(***************************************************************************)
EXTENDS Integers, Sequences, FiniteSets, TLC

VARIABLES
    shape,          \* postprocess_output: array.shape() of the engine output
    rows,           \* postprocess_output: the rows of array.slice(s![0, .., ..])
    decoded,        \* postprocess_output: `boxes` before suppression (line 133-159)
    boxes,          \* postprocess_output: the boxes returned (line 162-164)
    detect_result,  \* "pending" | "Ok" | "InferenceError" | "panic"
    box1, box2,     \* calculate_iou: its two arguments
    iou,            \* calculate_iou: its result, or NoValue before the call
    text,           \* postprocess_text: its argument, a sequence of characters
    text_result,    \* postprocess_text: its result, or NoValue before the call
    config,         \* NotificationService: which credentials are configured
    whitelist,      \* App.whitelist
    detections,     \* process_frame: the boxes detect_license_plate returned
    next_box,       \* process_frame: index of the box the loop is at
    crops,          \* process_frame: the crop rectangle requested for each box reached
    recognized,     \* process_frame: the OCR outcome of each box reached
    events,         \* process_frame: the DetectionEvents created, in order
    alerts,         \* process_frame: the send_alert calls made, in order
    frame,          \* process_frame: the frame's pixel size
    ocr_output,     \* what the OCR engine reads in the crop of each box
    frame_result,   \* "idle" | "running" | "Ok" | "Err"
    frame_error     \* the error process_frame returned, "none" if none

detectVars == <<shape, rows, decoded, boxes, detect_result>>
iouVars    == <<box1, box2, iou>>
textVars   == <<text, text_result>>
frameVars  == <<config, whitelist, detections, next_box, crops, recognized,
                events, alerts, frame, ocr_output, frame_result, frame_error>>
vars == <<detectVars, iouVars, textVars, frameVars>>

NoValue == [none |-> TRUE]

Max(a, b) == IF a >= b THEN a ELSE b
Min(a, b) == IF a <= b THEN a ELSE b

(***************************************************************************)
(* f32 quotients                                                           *)
(***************************************************************************)
F32Zero == [num |-> 0, den |-> 1]

IsNaN(q) == q.den = 0 /\ q.num = 0

\* q > t for a fraction q and a positive threshold t = [num, den], den > 0
F32Gt(q, t) ==
    IF q.den > 0 THEN q.num * t.den > t.num * q.den
    ELSE IF q.den < 0 THEN q.num * t.den < t.num * q.den
    ELSE q.num > 0

\* q <= t
F32Le(q, t) == ~IsNaN(q) /\ ~F32Gt(q, t)

\* q == 1.0 and q == 0.0
F32IsOne(q)  == q.den # 0 /\ q.num = q.den
F32IsZero(q) == q.den # 0 /\ q.num = 0

(***************************************************************************)
(* yolo-detector                                                           *)
(***************************************************************************)
CONFIDENCE_THRESHOLD == 5

IOU_THRESHOLD == [num |-> 1, den |-> 2]

\* the corner conversion with the signs of the half extents exchanged
BoxOfRowSwapped(r, i) ==
    [x_min |-> 2 * r[1] + r[3],
     y_min |-> 2 * r[2] + r[4],
     x_max |-> 2 * r[1] - r[3],
     y_max |-> 2 * r[2] - r[4],
     confidence |-> r[5],
     row |-> i]

\* BoundingBox, decoded from row i (lines 140-157).  `row` is the index of
\* the raw row the box was decoded from; the program does not store it, it
\* identifies a box among boxes of equal fields.
BoxOfRow(r, i) ==
    [x_min |-> 2 * r[1] - r[3],
     y_min |-> 2 * r[2] - r[4],
     x_max |-> 2 * r[1] + r[3],
     y_max |-> 2 * r[2] + r[4],
     confidence |-> r[5],
     row |-> i]

\* the filter with a comparison that is not strict
AtOrAboveThreshold(confidence) == confidence >= CONFIDENCE_THRESHOLD

\* the filter of line 139
AboveThreshold(confidence) == confidence > CONFIDENCE_THRESHOLD

\* the decode loop, lines 137-159
RECURSIVE DecodeFrom(_, _)
DecodeFrom(rs, i) ==
    IF i > Len(rs) THEN <<>>
    ELSE (IF AboveThreshold(rs[i][5]) THEN <<BoxOfRow(rs[i], i)>> ELSE <<>>)
         \o DecodeFrom(rs, i + 1)

Decode(rs) == DecodeFrom(rs, 1)

\* lines 194-209
calculate_iou(b1, b2) ==
    LET x_left   == Max(b1.x_min, b2.x_min)
        y_top    == Max(b1.y_min, b2.y_min)
        x_right  == Min(b1.x_max, b2.x_max)
        y_bottom == Min(b1.y_max, b2.y_max)
        intersection_area == (x_right - x_left) * (y_bottom - y_top)
        box1_area == (b1.x_max - b1.x_min) * (b1.y_max - b1.y_min)
        box2_area == (b2.x_max - b2.x_min) * (b2.y_max - b2.y_min)
    IN  IF x_right < x_left \/ y_bottom < y_top
        THEN F32Zero
        ELSE [num |-> intersection_area,
              den |-> box1_area + box2_area - intersection_area]

\* an insertion that puts b before the boxes of its own confidence
InsertUnstableAt(s, b) ==
    Cardinality({k \in 1..Len(s) : s[k].confidence > b.confidence})

\* Position at which the stable sort of line 168 puts b into the sorted s:
\* after every box that does not compare Greater, that is with confidence
\* at least b's.
InsertAt(s, b) ==
    Cardinality({k \in 1..Len(s) : s[k].confidence >= b.confidence})

Insert(s, b) ==
    LET k == InsertAt(s, b)
    IN  SubSeq(s, 1, k) \o <<b>> \o SubSeq(s, k + 1, Len(s))

\* boxes.sort_by(|a, b| b.confidence.partial_cmp(&a.confidence).unwrap()),
\* a stable sort, confidence descending (line 168)
RECURSIVE SortByConfidence(_)
SortByConfidence(s) ==
    IF s = <<>> THEN <<>>
    ELSE Insert(SortByConfidence(SubSeq(s, 1, Len(s) - 1)), s[Len(s)])

\* the inner loop of lines 176-184 for one i: every later box still kept
\* whose IoU with box i exceeds the threshold is dropped
Suppress(bs, keep, i, iou_threshold) ==
    [j \in 1..Len(bs) |->
        IF j > i /\ keep[j] /\ F32Gt(calculate_iou(bs[i], bs[j]), iou_threshold)
        THEN FALSE ELSE keep[j]]

\* the outer loop without the `if !keep[i] { continue; }` of lines 172-174:
\* a box that was dropped still drops later boxes
RECURSIVE KeepFromAll(_, _, _, _)
KeepFromAll(bs, keep, i, iou_threshold) ==
    IF i > Len(bs) THEN keep
    ELSE KeepFromAll(bs, Suppress(bs, keep, i, iou_threshold), i + 1, iou_threshold)

\* the outer loop of lines 171-185
RECURSIVE KeepFrom(_, _, _, _)
KeepFrom(bs, keep, i, iou_threshold) ==
    IF i > Len(bs) THEN keep
    ELSE KeepFrom(bs,
                  IF keep[i] THEN Suppress(bs, keep, i, iou_threshold) ELSE keep,
                  i + 1, iou_threshold)

RECURSIVE Filter(_, _, _)
Filter(bs, keep, i) ==
    IF i > Len(bs) THEN <<>>
    ELSE (IF keep[i] THEN <<bs[i]>> ELSE <<>>) \o Filter(bs, keep, i + 1)

\* lines 167-192
non_max_suppression(bs, iou_threshold) ==
    LET sorted == SortByConfidence(bs)
        keep   == KeepFrom(sorted, [j \in 1..Len(sorted) |-> TRUE], 1, iou_threshold)
    IN  Filter(sorted, keep, 1)

\* postprocess_output with the shape test `shape.len() != 2`
postprocess_output_2d(sh, rs) ==
    IF Len(sh) # 2
    THEN [result |-> "InferenceError", decoded |-> <<>>, boxes |-> <<>>]
    ELSE IF sh[1] > 0 /\ sh[2] < 5
    THEN [result |-> "panic", decoded |-> <<>>, boxes |-> <<>>]
    ELSE [result |-> "Ok",
          decoded |-> Decode(rs),
          boxes |-> non_max_suppression(Decode(rs), IOU_THRESHOLD)]

\* lines 121-165: the outcome of postprocess_output on an engine output of
\* shape sh whose leading 2-D slice holds the rows rs
postprocess_output(sh, rs) ==
    IF Len(sh) # 3
    THEN [result |-> "InferenceError", decoded |-> <<>>, boxes |-> <<>>]
    ELSE IF sh[1] = 0 \/ (sh[2] > 0 /\ sh[3] < 5)
    \* s![0, .., ..] of an empty axis, predictions[[i, 4]] past the columns
    THEN [result |-> "panic", decoded |-> <<>>, boxes |-> <<>>]
    ELSE [result |-> "Ok",
          decoded |-> Decode(rs),
          boxes |-> non_max_suppression(Decode(rs), IOU_THRESHOLD)]

(***************************************************************************)
(* plate-ocr                                                               *)
(***************************************************************************)
\* A text is a sequence of characters, a character a string of length one.
UpperLetters == {"A", "B", "C", "D", "E", "F", "G", "H", "I", "J", "K", "L", "M",
                 "N", "O", "P", "Q", "R", "S", "T", "U", "V", "W", "X", "Y", "Z"}
Digits == {"0", "1", "2", "3", "4", "5", "6", "7", "8", "9"}

\* the character class of plate_pattern, [A-Z0-9-] (line 48)
PlateChars == UpperLetters \cup Digits \cup {"-"}

\* the repetition bounds of plate_pattern, {4,10} (line 48)
PLATE_MIN_LEN == 4
PLATE_MAX_LEN == 10

\* char::is_whitespace, on the characters of the model
Whitespace == {" ", "\n", "\t"}

\* char::to_uppercase, on the characters of the model
ToUpper(c) ==
    CASE c = "a" -> "A"
      [] c = "b" -> "B"
      [] c = "c" -> "C"
      [] c = "x" -> "X"
      [] c = "y" -> "Y"
      [] c = "z" -> "Z"
      [] OTHER -> c

\* str::trim (line 137)
RECURSIVE TrimStart(_)
TrimStart(t) ==
    IF t # <<>> /\ t[1] \in Whitespace THEN TrimStart(Tail(t)) ELSE t

RECURSIVE TrimEnd(_)
TrimEnd(t) ==
    IF t # <<>> /\ t[Len(t)] \in Whitespace
    THEN TrimEnd(SubSeq(t, 1, Len(t) - 1)) ELSE t

Trim(t) == TrimEnd(TrimStart(t))

\* .replacen(['\n', ' '], "", 1): only the first separator is removed
RECURSIVE RemoveFirstSeparator(_)
RemoveFirstSeparator(t) ==
    IF t = <<>> THEN <<>>
    ELSE IF t[1] \in {"\n", " "} THEN Tail(t)
    ELSE <<t[1]>> \o RemoveFirstSeparator(Tail(t))

\* .replace(['\n', ' '], "") (line 138)
IsRemoved(c) == c \in {"\n", " "}
RemoveSeparators(t) == SelectSeq(t, LAMBDA c : ~IsRemoved(c))

\* .to_uppercase() (line 139)
ToUppercase(t) == [k \in 1..Len(t) |-> ToUpper(t[k])]

\* lines 136-139
Normalize(t) == ToUppercase(RemoveSeparators(Trim(t)))

\* the pattern without its anchors, [A-Z0-9-]{4,10}: a match anywhere in t
IsMatchUnanchored(t) ==
    \E i \in 1..Len(t) :
        /\ i + PLATE_MIN_LEN - 1 <= Len(t)
        /\ \A k \in i..(i + PLATE_MIN_LEN - 1) : t[k] \in PlateChars

\* plate_pattern.is_match, ^[A-Z0-9-]{4,10}$ (lines 48, 142)
IsMatch(t) ==
    /\ \A k \in 1..Len(t) : t[k] \in PlateChars
    /\ Len(t) >= PLATE_MIN_LEN
    /\ Len(t) <= PLATE_MAX_LEN

\* OcrError::ValidationError(format!("Text '{}' does not ...", processed)):
\* `carried` is the text the message is formatted from (lines 143-146)
ValidationError(raw, processed) ==
    [tag |-> "ValidationError", carried |-> processed]

\* lines 134-150
postprocess_text(t) ==
    LET processed == Normalize(t)
    IN  IF ~IsMatch(processed)
        THEN ValidationError(t, processed)
        ELSE [tag |-> "Ok", value |-> processed]

(***************************************************************************)
(* notification                                                            *)
(***************************************************************************)
LineConfigured(cfg)     == cfg.line_token
TelegramConfigured(cfg) == cfg.telegram_token /\ cfg.telegram_chat_id

\* send_alert with both `match`es replaced by `?`: the first failing channel
\* ends the call with its error
send_alert_propagating(cfg, line_outcome, telegram_outcome) ==
    LET line == IF LineConfigured(cfg)
                THEN <<[channel |-> "line", outcome |-> line_outcome]>> ELSE <<>>
        line_failed == LineConfigured(cfg) /\ line_outcome # "Ok"
        telegram == IF TelegramConfigured(cfg) /\ ~line_failed
                    THEN <<[channel |-> "telegram", outcome |-> telegram_outcome]>>
                    ELSE <<>>
    IN  [attempts |-> line \o telegram,
         result |-> IF line_failed THEN line_outcome
                    ELSE IF TelegramConfigured(cfg) /\ telegram_outcome # "Ok"
                    THEN telegram_outcome ELSE "Ok"]

\* lines 52-75: the channels attempted, each with the outcome of its
\* send_line_notify / send_telegram call, and the Result returned
send_alert(cfg, line_outcome, telegram_outcome) ==
    LET line == IF LineConfigured(cfg)
                THEN <<[channel |-> "line", outcome |-> line_outcome]>> ELSE <<>>
        telegram == IF TelegramConfigured(cfg)
                    THEN <<[channel |-> "telegram", outcome |-> telegram_outcome]>>
                    ELSE <<>>
    IN  [attempts |-> line \o telegram, result |-> "Ok"]

(***************************************************************************)
(* main                                                                    *)
(***************************************************************************)
\* `v as u32` for an f32 stored doubled: truncation toward zero, saturating
\* at 0 for negative values (main.rs lines 63-66)
AsU32(v2) == IF v2 <= 0 THEN 0 ELSE v2 \div 2

\* the arguments of frame.crop, lines 62-67
CropRequest(bbox) ==
    [x |-> AsU32(bbox.x_min),
     y |-> AsU32(bbox.y_min),
     width  |-> AsU32(bbox.x_max - bbox.x_min),
     height |-> AsU32(bbox.y_max - bbox.y_min)]

\* a decision that answers Denied for a plate that is not listed
AccessDecisionDenying(plate, wl) ==
    IF plate \in wl THEN "Allowed" ELSE "Denied"

\* lines 73-80
AccessDecision(plate, wl) ==
    IF plate \in wl THEN "Allowed" ELSE "Suspicious"

(***************************************************************************)
(* Inputs                                                                  *)
(***************************************************************************)
MaxRows == 3
MaxRun == 6
MaxFrameRows == 2

\* all sequences over S of length at most n
SeqsUpTo(S, n) == UNION {[1..k -> S] : k \in 0..n}

\* Raw rows of the engine: two centres one unit apart, four sizes (a 4x2 and
\* a 2x2 box, a box of no extent, a box of negative width), confidences above
\* the threshold; and one geometry at and below the threshold.
RawRows ==
    {<<cx, 2, sz[1], sz[2], c>> :
        cx \in {2, 3}, sz \in {<<4, 2>>, <<2, 2>>, <<0, 0>>, <<-2, 2>>}, c \in {6, 9}}
    \cup {<<2, 2, 4, 2, 5>>, <<2, 2, 4, 2, 4>>}

\* Engine outputs: [1, n, 5] tensors over RawRows, and tensors of other
\* shapes holding at most one row.
TensorInputs ==
    {[shape |-> <<1, Len(rs), 5>>, rows |-> rs] : rs \in SeqsUpTo(RawRows, MaxRows)}
    \cup {[shape |-> <<0, 5>>, rows |-> <<>>],
          [shape |-> <<1, 5>>, rows |-> << <<2, 2, 4, 2, 9>> >>],
          [shape |-> <<1, 1, 1, 5>>, rows |-> << <<2, 2, 4, 2, 9>> >>],
          [shape |-> <<0, 1, 5>>, rows |-> <<>>],
          [shape |-> <<1, 0, 4>>, rows |-> <<>>],
          [shape |-> <<1, 1, 4>>, rows |-> << <<2, 2, 4, 2>> >>],
          [shape |-> <<1, 1, 6>>, rows |-> << <<2, 2, 4, 2, 9, 0>> >>],
          \* two candidates at 0.9 and 0.6 with mutual IoU 0.9
          [shape |-> <<1, 2, 5>>,
           rows |-> << <<2, 2, 20, 2, 9>>, <<2, 2, 18, 2, 6>> >>],
          \* a chain: the first overlaps the second, the second the third,
          \* the first not the third
          [shape |-> <<1, 3, 5>>,
           rows |-> << <<2, 2, 4, 2, 9>>, <<3, 2, 4, 2, 6>>, <<4, 2, 4, 2, 6>> >>]}

\* Boxes for calculate_iou: corners with x_min <= x_max and y_min <= y_max
IouBoxes ==
    {BoxOfRow(<<cx, cy, w, h, 9>>, 1) :
        cx \in {1, 2, 4}, cy \in {1, 2}, w \in {0, 2, 4}, h \in {0, 2}}

\* Raw OCR texts: a run of one character, a separator, a second run, between
\* optional surrounding whitespace; and the two texts of
\* test_text_postprocessing.
Run(c, n) == [k \in 1..n |-> c]

TextInputs ==
    {lead \o Run(c, n) \o mid \o Run(d, m) \o trail :
        lead \in {<<>>, <<" ">>, <<"\t">>},
        c \in {"A", "a", "7"}, n \in 0..MaxRun,
        mid \in {<<>>, <<" ">>, <<"\n">>, <<"\t">>, <<"-">>, <<"!">>,
                 <<"\n", " ">>, <<" ", "\t", "\n">>},
        d \in {"B", "9"}, m \in 0..(MaxRun - 1),
        trail \in {<<>>, <<"\n">>}}
    \cup {<<"A", "B", "C", "1", "2", "3">>, <<"!", "@", "#", "$", "%", "^">>}

\* Frames and what the detector and the OCR engine return for them
Frames == {[width |-> 6, height |-> 4]}

FrameRows == {<<3, 2, 4, 2, 9>>, <<5, 2, 4, 2, 6>>, <<0, 2, 2, 2, 9>>}

FrameTensors ==
    {[shape |-> <<1, Len(rs), 5>>, rows |-> rs] : rs \in SeqsUpTo(FrameRows, MaxFrameRows)}

PlateABC123 == <<"A", "B", "C", "1", "2", "3">>
PlateXYZ999 == <<"X", "Y", "Z", "9", "9", "9">>

OcrReadings ==
    {[tag |-> "Ok", text |-> t] :
        t \in {PlateABC123,
               <<" ", "x", "y", "z", " ", "9", "9", "9", "\n">>,
               <<"!", "@", "#", "$", "%", "^">>}}
    \cup {[tag |-> "ProcessingError", text |-> <<>>]}

Configs == [line_token : BOOLEAN, telegram_token : BOOLEAN, telegram_chat_id : BOOLEAN]

ChannelOutcomes == {"Ok", "ApiError", "ImageError"}

Whitelists == {{PlateABC123}, {PlateABC123, PlateXYZ999}}

(***************************************************************************)
(* States in which a component has not been started                        *)
(***************************************************************************)
DetectIdle ==
    /\ shape = <<>> /\ rows = <<>> /\ decoded = <<>> /\ boxes = <<>>
    /\ detect_result = "pending"

IouIdle == box1 = NoValue /\ box2 = NoValue /\ iou = NoValue

TextIdle == text = <<>> /\ text_result = NoValue

FrameIdle ==
    /\ config = [line_token |-> FALSE, telegram_token |-> FALSE,
                 telegram_chat_id |-> FALSE]
    /\ whitelist = {}
    /\ frame = [width |-> 0, height |-> 0]
    /\ detections = <<>> /\ ocr_output = <<>> /\ next_box = 1
    /\ crops = <<>> /\ recognized = <<>> /\ events = <<>> /\ alerts = <<>>
    /\ frame_result = "idle" /\ frame_error = "none"

(***************************************************************************)
(* The detector: postprocess_output on one engine output                   *)
(***************************************************************************)
InitDetect ==
    /\ \E t \in TensorInputs : shape = t.shape /\ rows = t.rows
    /\ decoded = <<>> /\ boxes = <<>> /\ detect_result = "pending"
    /\ IouIdle /\ TextIdle /\ FrameIdle

PostprocessOutput ==
    /\ detect_result = "pending"
    /\ LET out == postprocess_output(shape, rows)
       IN  /\ detect_result' = out.result
           /\ decoded' = out.decoded
           /\ boxes' = out.boxes
    /\ UNCHANGED <<shape, rows, iouVars, textVars, frameVars>>

NextDetect == PostprocessOutput

SpecDetect == InitDetect /\ [][NextDetect]_vars

(***************************************************************************)
(* calculate_iou on a pair of boxes                                        *)
(***************************************************************************)
InitIou ==
    /\ box1 \in IouBoxes /\ box2 \in IouBoxes /\ iou = NoValue
    /\ DetectIdle /\ TextIdle /\ FrameIdle

CalculateIou ==
    /\ iou = NoValue
    /\ iou' = calculate_iou(box1, box2)
    /\ UNCHANGED <<box1, box2, detectVars, textVars, frameVars>>

NextIou == CalculateIou

SpecIou == InitIou /\ [][NextIou]_vars

(***************************************************************************)
(* postprocess_text on one raw text                                        *)
(***************************************************************************)
InitText ==
    /\ text \in TextInputs /\ text_result = NoValue
    /\ DetectIdle /\ IouIdle /\ FrameIdle

PostprocessText ==
    /\ text_result = NoValue
    /\ text_result' = postprocess_text(text)
    /\ UNCHANGED <<text, detectVars, iouVars, frameVars>>

NextText == PostprocessText

SpecText == InitText /\ [][NextText]_vars

(***************************************************************************)
(* App::process_frame on one frame (main.rs lines 56-102)                  *)
(***************************************************************************)
InitFrame ==
    /\ config \in Configs
    /\ whitelist \in Whitelists
    /\ frame = [width |-> 0, height |-> 0]
    /\ detections = <<>> /\ ocr_output = <<>> /\ next_box = 1
    /\ crops = <<>> /\ recognized = <<>> /\ events = <<>> /\ alerts = <<>>
    /\ frame_result = "idle" /\ frame_error = "none"
    /\ DetectIdle /\ IouIdle /\ TextIdle

\* process_frame returns Err(e): the `?` of lines 58, 70 and 87
FailFrame(e) ==
    /\ frame_result' = "Err"
    /\ frame_error' = e

\* line 58: detect_license_plate fails in session.run (lib.rs lines 83-85),
\* or returns the boxes of postprocess_output
DetectLicensePlate ==
    /\ frame_result = "idle"
    /\ \E f \in Frames, t \in FrameTensors, run_ok \in BOOLEAN :
        /\ frame' = f
        /\ IF ~run_ok
           THEN /\ FailFrame("InferenceError")
                /\ UNCHANGED <<detections, ocr_output>>
           ELSE LET out == postprocess_output(t.shape, t.rows)
                IN  /\ detections' = out.boxes
                    /\ ocr_output' \in [1..Len(out.boxes) -> OcrReadings]
                    /\ frame_result' = "running"
                    /\ UNCHANGED frame_error
    /\ UNCHANGED <<config, whitelist, next_box, crops, recognized, events, alerts>>
    /\ UNCHANGED <<detectVars, iouVars, textVars>>

\* lines 60-99: the loop body for the box at next_box
ProcessBox ==
    /\ frame_result = "running"
    /\ next_box <= Len(detections)
    /\ LET bbox == detections[next_box]
           reading == ocr_output[next_box]
           plate_text == IF reading.tag = "Ok"
                         THEN postprocess_text(reading.text)
                         ELSE [tag |-> "ProcessingError", carried |-> <<>>]
       IN  /\ crops' = Append(crops, CropRequest(bbox))
           /\ recognized' = Append(recognized, plate_text)
           /\ IF plate_text.tag # "Ok"
              THEN \* line 70: self.ocr.process_plate(&plate_image)?
                   /\ FailFrame(plate_text.tag)
                   /\ UNCHANGED <<next_box, events, alerts>>
              ELSE \E saved \in BOOLEAN, line_outcome, telegram_outcome \in ChannelOutcomes :
                   LET access_status == AccessDecision(plate_text.value, whitelist)
                       event == [plate_number |-> plate_text.value,
                                 access_status |-> access_status,
                                 box |-> next_box]
                   IN  IF ~saved
                       THEN \* line 87: save_detection_image(&frame, &bbox)?
                            /\ FailFrame("IoError")
                            /\ UNCHANGED <<next_box, events, alerts>>
                       ELSE /\ events' = Append(events, event)
                            /\ alerts' =
                                 IF access_status = "Suspicious"
                                 THEN Append(alerts,
                                        [box |-> next_box,
                                         plate_number |-> event.plate_number,
                                         call |-> send_alert(config, line_outcome,
                                                             telegram_outcome)])
                                 ELSE alerts
                            /\ next_box' = next_box + 1
                            /\ UNCHANGED <<frame_result, frame_error>>
    /\ UNCHANGED <<config, whitelist, frame, detections, ocr_output>>
    /\ UNCHANGED <<detectVars, iouVars, textVars>>

\* line 101
FinishFrame ==
    /\ frame_result = "running"
    /\ next_box > Len(detections)
    /\ frame_result' = "Ok"
    /\ UNCHANGED <<config, whitelist, frame, detections, ocr_output, next_box,
                   crops, recognized, events, alerts, frame_error>>
    /\ UNCHANGED <<detectVars, iouVars, textVars>>

NextFrame == DetectLicensePlate \/ ProcessBox \/ FinishFrame

SpecFrame == InitFrame /\ [][NextFrame]_vars

(***************************************************************************)
(* Properties of the detector                                              *)
(***************************************************************************)
\* C4: any two distinct boxes in the output of non_max_suppression have IoU
\* at most 0.5 with each other.
SuppressedPairwise ==
    detect_result = "Ok" =>
        \A i, j \in 1..Len(boxes) :
            i # j => F32Le(calculate_iou(boxes[i], boxes[j]), IOU_THRESHOLD)

\* C5: the output of non_max_suppression is ordered by confidence,
\* descending, and boxes of equal confidence are in the order of the rows
\* they were decoded from.
OutputSortedStable ==
    detect_result = "Ok" =>
        \A i, j \in 1..Len(boxes) :
            i < j => /\ boxes[i].confidence >= boxes[j].confidence
                     /\ boxes[i].confidence = boxes[j].confidence
                            => boxes[i].row < boxes[j].row

\* C5 witness: an output holding two boxes of equal confidence and, before
\* them, a box of higher confidence that was decoded after both.
OutputSortedStableWitness ==
    /\ detect_result = "Ok"
    /\ \E i, j, k \in 1..Len(boxes) :
        /\ i < j /\ j < k
        /\ boxes[i].confidence > boxes[j].confidence
        /\ boxes[j].confidence = boxes[k].confidence
        /\ boxes[i].row > boxes[k].row

\* C8 as stated: every decoded box has x_min <= x_max and y_min <= y_max.
DecodedWellFormed ==
    detect_result = "Ok" =>
        \A k \in 1..Len(decoded) :
            /\ decoded[k].x_min <= decoded[k].x_max
            /\ decoded[k].y_min <= decoded[k].y_max

\* C8 amended: every box decoded from a row of non-negative width and
\* height has x_min <= x_max and y_min <= y_max.
DecodedWellFormedOfNonNegative ==
    detect_result = "Ok" =>
        \A k \in 1..Len(decoded) :
            (rows[decoded[k].row][3] >= 0 /\ rows[decoded[k].row][4] >= 0)
                => /\ decoded[k].x_min <= decoded[k].x_max
                   /\ decoded[k].y_min <= decoded[k].y_max

\* C8 witness: a box decoded from a row of positive width and height, and a
\* box decoded from a row of no extent.
DecodedWellFormedWitness ==
    /\ detect_result = "Ok"
    /\ \E k, m \in 1..Len(decoded) :
        /\ rows[decoded[k].row][3] > 0 /\ rows[decoded[k].row][4] > 0
        /\ rows[decoded[m].row][3] = 0 /\ rows[decoded[m].row][4] = 0

\* the boxes share no point on the x axis, or none on the y axis
DisjointOnAnAxis(b1, b2) ==
    \/ b1.x_max < b2.x_min \/ b2.x_max < b1.x_min
    \/ b1.y_max < b2.y_min \/ b2.y_max < b1.y_min

\* C9: calculate_iou returns exactly 1 when both arguments are the same
\* box, and exactly 0 for boxes that do not overlap on at least one axis.
IouOfSelfAndDisjoint ==
    iou # NoValue =>
        /\ box1 = box2 => F32IsOne(iou)
        /\ DisjointOnAnAxis(box1, box2) => F32IsZero(iou)

(***************************************************************************)
(* Properties of the text validator                                        *)
(***************************************************************************)
\* C7: postprocess_text succeeds exactly when the normalized text consists
\* only of characters from A-Z, 0-9 and '-' and has length 4 to 10; every
\* other text fails with a ValidationError carrying the normalized text;
\* "ABC123" is accepted and "!@#$%^" is rejected.
ValidatorAcceptsExactlyPlates ==
    text_result # NoValue =>
        LET n == Normalize(text)
            plate == /\ \A k \in 1..Len(n) : n[k] \in PlateChars
                     /\ Len(n) >= 4 /\ Len(n) <= 10
        IN  /\ plate => text_result = [tag |-> "Ok", value |-> n]
            /\ ~plate => text_result = [tag |-> "ValidationError", carried |-> n]
            /\ text = <<"A", "B", "C", "1", "2", "3">> => text_result.tag = "Ok"
            /\ text = <<"!", "@", "#", "$", "%", "^">>
                    => text_result.tag = "ValidationError"

\* C7 witness: a text accepted at the longest length, whose normalized form
\* differs from the raw text.
ValidatorWitness ==
    /\ text_result # NoValue
    /\ text_result.tag = "Ok"
    /\ Len(text_result.value) = 10
    /\ text_result.value # text

(***************************************************************************)
(* Properties of process_frame                                             *)
(***************************************************************************)
FrameEnded == frame_result \in {"Ok", "Err"}

\* no engine call and no write of a detection image failed in the frame
NoEngineOrStoreFailure == frame_error \in {"none", "ValidationError"}

AlertsOfBox(k) == {a \in 1..Len(alerts) : alerts[a].box = k}
EventsOfBox(k) == {e \in 1..Len(events) : events[e].box = k}

\* C1: a ValidationError of one box does not make process_frame return an
\* error, and every later box of the frame is still cropped, recognized and
\* classified.
ValidationFailureIsLocal ==
    /\ frame_error # "ValidationError"
    /\ (FrameEnded /\ NoEngineOrStoreFailure) =>
        /\ Len(crops) = Len(detections)
        /\ Len(recognized) = Len(detections)
        /\ \A k \in 1..Len(recognized) :
            recognized[k].tag = "Ok" => Cardinality(EventsOfBox(k)) = 1

\* C2: send_alert is invoked exactly once for every surviving box whose
\* normalized text passes validation and is not in the whitelist, and never
\* for a box whose access status is Allowed.  Stated for the frames in which
\* no engine call and no write of a detection image fails.
AlertForEverySuspiciousBox ==
    /\ (FrameEnded /\ NoEngineOrStoreFailure) =>
        \A k \in 1..Len(detections) :
            (/\ ocr_output[k].tag = "Ok"
             /\ IsMatch(Normalize(ocr_output[k].text))
             /\ Normalize(ocr_output[k].text) \notin whitelist)
                => Cardinality(AlertsOfBox(k)) = 1
    /\ \A a \in 1..Len(alerts) :
        \A e \in EventsOfBox(alerts[a].box) : events[e].access_status # "Allowed"

\* C3: every DetectionEvent is Allowed exactly when its plate text is in the
\* whitelist and Suspicious otherwise; none is Denied.
AccessDecisionByWhitelist ==
    \A e \in 1..Len(events) :
        /\ events[e].access_status = "Allowed" <=> events[e].plate_number \in whitelist
        /\ events[e].access_status = "Suspicious" <=> events[e].plate_number \notin whitelist
        /\ events[e].access_status # "Denied"

\* C3 witness: a frame with an Allowed and a Suspicious event.
AccessDecisionWitness ==
    /\ frame_result = "Ok"
    /\ \E e, f \in 1..Len(events) :
        /\ events[e].access_status = "Allowed"
        /\ events[f].access_status = "Suspicious"

ConfiguredChannels ==
    (IF config.line_token THEN <<"line">> ELSE <<>>)
    \o (IF config.telegram_token /\ config.telegram_chat_id THEN <<"telegram">> ELSE <<>>)

\* C6: send_alert returns Ok whatever the channels' outcomes, attempts every
\* configured channel whatever the outcome of the other, and the box it was
\* called for never ends process_frame with an error.
AlertIsBestEffort ==
    /\ \A a \in 1..Len(alerts) :
        /\ alerts[a].call.result = "Ok"
        /\ [c \in 1..Len(alerts[a].call.attempts) |-> alerts[a].call.attempts[c].channel]
                = ConfiguredChannels
        /\ alerts[a].box < next_box
    /\ frame_error \notin {"ApiError", "ImageError", "ConfigError"}

\* C6 witness: a frame that ended Ok with an alert whose LINE attempt failed
\* and whose Telegram attempt was made and succeeded.
AlertIsBestEffortWitness ==
    /\ frame_result = "Ok"
    /\ \E a \in 1..Len(alerts) :
        alerts[a].call.attempts = <<[channel |-> "line", outcome |-> "ApiError"],
                                    [channel |-> "telegram", outcome |-> "Ok"]>>

\* C10: the crop rectangle requested for every surviving box lies entirely
\* inside the frame.
CropInsideFrame ==
    \A k \in 1..Len(crops) :
        /\ crops[k].x + crops[k].width <= frame.width
        /\ crops[k].y + crops[k].height <= frame.height

NormalizedOf(r) == IF r.tag = "Ok" THEN r.value ELSE r.carried

\* C12: text normalization is idempotent: applied to the normalized text
\* that postprocess_text produced, it returns that text unchanged.
NormalizeIdempotent ==
    text_result # NoValue =>
        /\ Normalize(NormalizedOf(text_result)) = NormalizedOf(text_result)
        /\ Normalize(Normalize(text)) = Normalize(text)

\* C12 witness: a raw text with surrounding whitespace, two inner separators
\* and a lower-case letter, normalized to a shorter text that keeps its tab.
NormalizeIdempotentWitness ==
    /\ text_result # NoValue
    /\ text # <<>> /\ text[1] \in Whitespace
    /\ \E k \in 1..Len(text) : text[k] = "a"
    /\ Len(NormalizedOf(text_result)) + 3 <= Len(text)
    /\ \E k \in 1..Len(NormalizedOf(text_result)) : NormalizedOf(text_result)[k] = "\t"

\* b is one of the boxes postprocess_output returned
Retained(b) == \E k \in 1..Len(boxes) : boxes[k] = b

\* C13: in the confidence-sorted list a box is absent from the output
\* exactly when an earlier box that is itself retained has IoU greater than
\* 0.5 with it (so a dropped box drops nothing), the first box is always
\* retained, and candidates at 0.9 and 0.6 with mutual IoU 0.9 leave only
\* the 0.9 box.
GreedySuppression ==
    detect_result = "Ok" =>
        LET sorted == SortByConfidence(decoded)
        IN  /\ \A j \in 1..Len(sorted) :
                ~Retained(sorted[j]) <=>
                    \E i \in 1..(j - 1) :
                        /\ Retained(sorted[i])
                        /\ F32Gt(calculate_iou(sorted[i], sorted[j]),
                                 [num |-> 1, den |-> 2])
            /\ sorted # <<>> => Retained(sorted[1])
            /\ rows = << <<2, 2, 20, 2, 9>>, <<2, 2, 18, 2, 6>> >>
                => (Len(boxes) = 1 /\ boxes[1].confidence = 9)

\* C13 witness: three boxes of which the second is dropped by the first and
\* the third retained, although its IoU with the second exceeds 0.5.
GreedySuppressionWitness ==
    /\ detect_result = "Ok"
    /\ Len(decoded) = 3 /\ Len(boxes) = 2
    /\ LET sorted == SortByConfidence(decoded)
       IN  /\ Retained(sorted[1]) /\ ~Retained(sorted[2]) /\ Retained(sorted[3])
           /\ F32Gt(calculate_iou(sorted[2], sorted[3]), [num |-> 1, den |-> 2])

\* a box without the index of the row it was decoded from
Fields(b) == [x_min |-> b.x_min, y_min |-> b.y_min, x_max |-> b.x_max,
              y_max |-> b.y_max, confidence |-> b.confidence]

\* C14: every box postprocess_output returns has confidence strictly
\* greater than 0.5; a row of confidence 0.5 or lower yields no box, and the
\* output is the one the rows above 0.5 alone produce.
StrictThreshold ==
    detect_result = "Ok" =>
        /\ \A k \in 1..Len(boxes) : boxes[k].confidence > 5
        /\ \A i \in 1..Len(rows) :
            rows[i][5] <= 5 =>
                /\ \A k \in 1..Len(decoded) : decoded[k].row # i
                /\ \A k \in 1..Len(boxes) : boxes[k].row # i
        /\ LET above == SelectSeq(rows, LAMBDA r : r[5] > 5)
               alone == non_max_suppression(Decode(above), IOU_THRESHOLD)
           IN  [k \in 1..Len(boxes) |-> Fields(boxes[k])]
                   = [k \in 1..Len(alone) |-> Fields(alone[k])]

\* C14 witness: rows of confidence 0.5 and 0.4 ahead of a row of the same
\* geometry at 0.6, which alone is returned.
StrictThresholdWitness ==
    /\ detect_result = "Ok"
    /\ Len(rows) = 3
    /\ rows[1] = <<2, 2, 4, 2, 5>> /\ rows[2] = <<2, 2, 4, 2, 4>>
    /\ rows[3] = <<2, 2, 4, 2, 6>>
    /\ Len(boxes) = 1 /\ boxes[1].row = 3

====
